---- MODULE Spec2Model ----
(***************************************************************************)
(* Online Mechanic AI: the Lambda handler (backend/lambda_function.py) and *)
(* the S3 helper (backend/utils/s3_helper.py) as a state machine.          *)
(*                                                                         *)
(* One invocation of lambda_handler is one atomic step.  The process       *)
(* configuration (S3_BUCKET, OPENAI_API_KEY, whether boto3 imported) is    *)
(* fixed at start-up.  The object store and the clock outlive an           *)
(* invocation.  What the collaborators answer (the store's write and       *)
(* presign, the OpenAI client and its reply) is drawn at the call.         *)
(*                                                                         *)
(* Python text is a TLA+ string; a dynamically typed Python value (a       *)
(* parsed JSON value, None) is a tagged record.                            *)
(***************************************************************************)
EXTENDS Integers, Sequences, FiniteSets, TLC

(***************************************************************************)
(* The state.                                                              *)
(*   S3_BUCKET, OPENAI_API_KEY  the environment: None or a string          *)
(*   boto3            whether "import boto3" succeeded                     *)
(*   objects          the bucket: key -> [Body, ContentType]               *)
(*   now              int(time.time())                                     *)
(*   phase            "idle", or "done" after an invocation                *)
(*   event, sent      the event of the last invocation, what it was built  *)
(*                    from                                                 *)
(*   answers          what the collaborators answered in it                *)
(*   outcome          what lambda_handler did in it                        *)
(*   before           objects as the invocation found it                   *)
(*   uploads          every put_object that succeeded, in order            *)
(***************************************************************************)
VARIABLES S3_BUCKET, OPENAI_API_KEY, boto3, objects, now, phase,
          event, sent, answers, outcome, before, uploads

config == <<S3_BUCKET, OPENAI_API_KEY, boto3>>
vars == <<S3_BUCKET, OPENAI_API_KEY, boto3, objects, now, phase,
          event, sent, answers, outcome, before, uploads>>

(***************************************************************************)
(* Bounds of the model: the handler is invoked until the log of uploads    *)
(* holds MaxUploads entries, and the clock runs up to MaxTime seconds.     *)
(***************************************************************************)
MaxUploads == 2
MaxTime == 1

(***************************************************************************)
(* Program constants.                                                      *)
(***************************************************************************)
MaxOutputTokens == 800
ExpiresIn == 3600

(***************************************************************************)
(* Python values.                                                          *)
(***************************************************************************)
None == [t |-> "null"]
JBool(b) == [t |-> "bool", b |-> b]
JNum(n) == [t |-> "num", n |-> n]
JStr(s) == [t |-> "str", s |-> s]
JArr(a) == [t |-> "arr", a |-> a]
JObj(ks, m) == [t |-> "obj", ks |-> ks, m |-> m]
EmptyMap == [k \in {} |-> None]
EmptyObj == JObj(<<>>, EmptyMap)

\* bool(v) of a Python value.
Truthy(v) ==
    CASE v.t = "null" -> FALSE
      [] v.t = "bool" -> v.b
      [] v.t = "num" -> v.n # 0
      [] v.t = "str" -> Len(v.s) > 0
      [] v.t = "arr" -> Len(v.a) > 0
      [] v.t = "obj" -> Len(v.ks) > 0

\* dict.get(key, default); the caller has checked that d is a dict.
DictGet(d, key, default) == IF key \in DOMAIN d.m THEN d.m[key] ELSE default

(***************************************************************************)
(* Characters.  Ch(s, i) is s[i], and "" past the end.                     *)
(***************************************************************************)
Ch(s, i) == IF i >= 1 /\ i <= Len(s) THEN SubSeq(s, i, i) ELSE ""

CharIndex(table, c) ==
    IF \E i \in 1..Len(table) : SubSeq(table, i, i) = c
    THEN CHOOSE i \in 1..Len(table) : SubSeq(table, i, i) = c
    ELSE 0

Digits == "0123456789"
IsDigit(c) == c # "" /\ CharIndex(Digits, c) > 0
HexDigits == "0123456789abcdefABCDEF"
IsHex(c) == c # "" /\ CharIndex(HexDigits, c) > 0
\* The whitespace str.strip() removes, among the characters of the model.
IsSpace(c) == c \in {" ", "\t", "\n", "\r", "\f"}
\* JSON whitespace.
IsJsonWs(c) == c \in {" ", "\t", "\n", "\r"}
\* A control character: "\f" stands for every one but tab, newline, return.
IsControl(c) == c \in {"\t", "\n", "\r", "\f"}

RECURSIVE lstrip(_)
lstrip(s) == IF Len(s) > 0 /\ IsSpace(Ch(s, 1)) THEN lstrip(Tail(s)) ELSE s

RECURSIVE rstrip(_)
rstrip(s) ==
    IF Len(s) > 0 /\ IsSpace(Ch(s, Len(s)))
    THEN rstrip(SubSeq(s, 1, Len(s) - 1))
    ELSE s

\* str.strip()
strip(s) == rstrip(lstrip(s))

\* str(n) of a non-negative int.
RECURSIVE IntToStr(_)
IntToStr(n) ==
    IF n < 10 THEN Ch(Digits, n + 1)
    ELSE IntToStr(n \div 10) \o Ch(Digits, (n % 10) + 1)

\* s.rfind("/"), 1-based, 0 when there is none.
RECURSIVE RFindSlash(_, _)
RFindSlash(s, i) ==
    IF i = 0 THEN 0 ELSE IF Ch(s, i) = "/" THEN i ELSE RFindSlash(s, i - 1)

\* os.path.basename (posixpath): what follows the last "/".
basename(p) == SubSeq(p, RFindSlash(p, Len(p)) + 1, Len(p))

(***************************************************************************)
(* base64.b64decode(s) with validate=False (binascii.a2b_base64): the      *)
(* characters outside the alphabet are skipped, a completed pad sequence   *)
(* ends the input, and a quad left open at the end is an error.            *)
(* A result is [ok, bytes], bytes a sequence of 0..255.                    *)
(***************************************************************************)
B64Alphabet == "ABCDEFGHIJKLMNOPQRSTUVWXYZabcdefghijklmnopqrstuvwxyz0123456789+/"
B64Error == [ok |-> FALSE, bytes |-> <<>>]

\* The decoder's loop variables; done: a pad sequence has ended the input.
A2bStart == [quad |-> 0, left |-> 0, pads |-> 0, out |-> <<>>, done |-> FALSE]

\* The body of the loop of a2b_base64, on the character c.
a2b_char(st, c) ==
    LET v == CharIndex(B64Alphabet, c) - 1
    IN  IF c = "="
        THEN IF st.quad >= 2 /\ st.quad + st.pads + 1 >= 4
             THEN [st EXCEPT !.done = TRUE]
             ELSE IF st.quad >= 2 THEN [st EXCEPT !.pads = st.pads + 1] ELSE st
        ELSE IF v < 0 THEN st
        ELSE CASE st.quad = 0 ->
                    [st EXCEPT !.quad = 1, !.left = v, !.pads = 0]
               [] st.quad = 1 ->
                    [st EXCEPT !.quad = 2, !.left = v % 16, !.pads = 0,
                               !.out = Append(st.out, st.left * 4 + (v \div 16))]
               [] st.quad = 2 ->
                    [st EXCEPT !.quad = 3, !.left = v % 4, !.pads = 0,
                               !.out = Append(st.out, st.left * 16 + (v \div 4))]
               [] st.quad = 3 ->
                    [st EXCEPT !.quad = 0, !.left = 0, !.pads = 0,
                               !.out = Append(st.out, st.left * 64 + v)]

\* The loop over s[i..j], and over s in blocks of 16 characters (the
\* recursion stays shallow on a long string).

RECURSIVE a2b_chars(_, _, _, _)
a2b_chars(s, i, j, st) ==
    IF i > j \/ st.done THEN st
    ELSE a2b_chars(s, i + 1, j, a2b_char(st, Ch(s, i)))

RECURSIVE a2b_blocks(_, _, _)
a2b_blocks(s, i, st) ==
    IF i > Len(s) \/ st.done THEN st
    ELSE LET j == IF i + 15 < Len(s) THEN i + 15 ELSE Len(s)
         IN  a2b_blocks(s, j + 1, a2b_chars(s, i, j, st))

a2b_base64(s) ==
    LET st == a2b_blocks(s, 1, A2bStart)
    IN  IF ~st.done /\ st.quad # 0 THEN B64Error
        ELSE [ok |-> TRUE, bytes |-> st.out]

b64decode(s) == a2b_base64(s)

(***************************************************************************)
(* bytes.decode("utf-8").  A result is [ok, s].  A well-formed multi-byte  *)
(* sequence decodes to "?", which stands for every non-ASCII character; a  *)
(* control character other than tab, newline and return decodes to "\f".   *)
(* Printable holds the characters 32..126 in order; a TLA+ string cannot   *)
(* hold the grave accent (96), and an apostrophe stands at its place.      *)
(***************************************************************************)
Printable == " !\"#$%&'()*+,-./0123456789:;<=>?@ABCDEFGHIJKLMNOPQRSTUVWXYZ[\\]^_'abcdefghijklmnopqrstuvwxyz{|}~"

Chr(b) ==
    CASE b = 9 -> "\t"
      [] b = 10 -> "\n"
      [] b = 13 -> "\r"
      [] b >= 32 /\ b <= 126 -> Ch(Printable, b - 31)
      [] OTHER -> "\f"

IsCont(bs, i) == i <= Len(bs) /\ bs[i] >= 128 /\ bs[i] <= 191

\* The length of the well-formed UTF-8 sequence that starts at bs[i]; 0 if none.
Utf8SeqLen(bs, i) ==
    LET b == bs[i]
        b2 == IF i + 1 <= Len(bs) THEN bs[i + 1] ELSE 0
    IN  CASE b < 128 -> 1
          [] b >= 194 /\ b <= 223 -> IF IsCont(bs, i + 1) THEN 2 ELSE 0
          [] b >= 224 /\ b <= 239 ->
               IF /\ IsCont(bs, i + 1)
                  /\ IsCont(bs, i + 2)
                  /\ (b = 224 => b2 >= 160)
                  /\ (b = 237 => b2 <= 159)
               THEN 3 ELSE 0
          [] b >= 240 /\ b <= 244 ->
               IF /\ IsCont(bs, i + 1)
                  /\ IsCont(bs, i + 2)
                  /\ IsCont(bs, i + 3)
                  /\ (b = 240 => b2 >= 144)
                  /\ (b = 244 => b2 <= 143)
               THEN 4 ELSE 0
          [] OTHER -> 0

\* The decoder's loop: st is [i, s, ok], i the next byte.
utf8_step(bs, st) ==
    LET n == Utf8SeqLen(bs, st.i)
    IN  IF n = 0 THEN [st EXCEPT !.ok = FALSE]
        ELSE [st EXCEPT !.i = st.i + n,
                        !.s = st.s \o (IF n = 1 THEN Chr(bs[st.i]) ELSE "?")]

RECURSIVE utf8_steps(_, _, _)
utf8_steps(bs, st, k) ==
    IF k = 0 \/ ~st.ok \/ st.i > Len(bs) THEN st
    ELSE utf8_steps(bs, utf8_step(bs, st), k - 1)

RECURSIVE utf8_blocks(_, _)
utf8_blocks(bs, st) ==
    IF ~st.ok \/ st.i > Len(bs) THEN st
    ELSE utf8_blocks(bs, utf8_steps(bs, st, 16))

utf8_decode(bs) ==
    LET st == utf8_blocks(bs, [i |-> 1, s |-> "", ok |-> TRUE])
    IN  IF st.ok THEN [ok |-> TRUE, s |-> st.s] ELSE [ok |-> FALSE, s |-> ""]

(***************************************************************************)
(* json.loads(s): the decoder of the json module.  A parse result is       *)
(* [ok, v, i]: v the value, i the index after it.  A number keeps its      *)
(* integer part; NaN and the infinities read as the number 0.              *)
(***************************************************************************)
ParseFail == [ok |-> FALSE, v |-> None, i |-> 0]
ParseOk(v, i) == [ok |-> TRUE, v |-> v, i |-> i]

RECURSIVE SkipWs(_, _)
SkipWs(s, i) == IF IsJsonWs(Ch(s, i)) THEN SkipWs(s, i + 1) ELSE i

RECURSIVE SkipDigits(_, _)
SkipDigits(s, i) == IF IsDigit(Ch(s, i)) THEN SkipDigits(s, i + 1) ELSE i

RECURSIVE DigitsValue(_, _, _, _)
DigitsValue(s, i, j, acc) ==
    IF i >= j THEN acc
    ELSE DigitsValue(s, i + 1, j, acc * 10 + (CharIndex(Digits, Ch(s, i)) - 1))

StartsWith(s, i, w) ==
    i + Len(w) - 1 <= Len(s) /\ SubSeq(s, i, i + Len(w) - 1) = w

\* py_scanstring, from the character after the opening quote.
RECURSIVE ScanString(_, _, _)
ScanString(s, i, acc) ==
    LET c == Ch(s, i)
        e == Ch(s, i + 1)
    IN  CASE c = "" -> ParseFail
          [] c = "\"" -> ParseOk(JStr(acc), i + 1)
          [] c = "\\" ->
               CASE e \in {"\"", "\\", "/"} -> ScanString(s, i + 2, acc \o e)
                 [] e = "n" -> ScanString(s, i + 2, acc \o "\n")
                 [] e = "t" -> ScanString(s, i + 2, acc \o "\t")
                 [] e = "r" -> ScanString(s, i + 2, acc \o "\r")
                 [] e \in {"b", "f"} -> ScanString(s, i + 2, acc \o "\f")
                 [] e = "u" ->
                      IF \A k \in 2..5 : IsHex(Ch(s, i + k))
                      THEN ScanString(s, i + 6, acc \o "?")
                      ELSE ParseFail
                 [] OTHER -> ParseFail
          [] IsControl(c) -> ParseFail
          [] OTHER -> ScanString(s, i + 1, acc \o c)

\* NUMBER_RE: (-?(?:0|[1-9]\d*))(\.\d+)?([eE][-+]?\d+)?
ScanNumber(s, i) ==
    LET neg == Ch(s, i) = "-"
        d == IF neg THEN i + 1 ELSE i
        intEnd == IF Ch(s, d) = "0" THEN d + 1 ELSE SkipDigits(s, d)
        fracEnd == IF Ch(s, intEnd) = "." /\ IsDigit(Ch(s, intEnd + 1))
                   THEN SkipDigits(s, intEnd + 1) ELSE intEnd
        expAt == IF Ch(s, fracEnd + 1) \in {"+", "-"}
                 THEN fracEnd + 2 ELSE fracEnd + 1
        expEnd == IF Ch(s, fracEnd) \in {"e", "E"} /\ IsDigit(Ch(s, expAt))
                  THEN SkipDigits(s, expAt) ELSE fracEnd
        mag == DigitsValue(s, d, intEnd, 0)
    IN  IF ~IsDigit(Ch(s, d)) THEN ParseFail
        ELSE ParseOk(JNum(IF neg THEN 0 - mag ELSE mag), expEnd)

RECURSIVE ScanValue(_, _)
RECURSIVE ScanMembers(_, _, _, _)
RECURSIVE ScanElements(_, _, _)

\* JSONObject after "{" and whitespace: i is at the opening quote of a key.
ScanMembers(s, i, ks, m) ==
    LET key == ScanString(s, i + 1, "")
        colon == SkipWs(s, key.i)
        val == ScanValue(s, SkipWs(s, colon + 1))
        after == SkipWs(s, val.i)
        ks2 == IF key.v.s \in DOMAIN m THEN ks ELSE Append(ks, key.v.s)
        m2 == [k \in (DOMAIN m) \cup {key.v.s} |->
                  IF k = key.v.s THEN val.v ELSE m[k]]
        next == SkipWs(s, after + 1)
    IN  IF ~key.ok THEN ParseFail
        ELSE IF Ch(s, colon) # ":" THEN ParseFail
        ELSE IF ~val.ok THEN ParseFail
        ELSE IF Ch(s, after) = "}" THEN ParseOk(JObj(ks2, m2), after + 1)
        ELSE IF Ch(s, after) # "," THEN ParseFail
        ELSE IF Ch(s, next) # "\"" THEN ParseFail
        ELSE ScanMembers(s, next, ks2, m2)

\* JSONArray after "[" and whitespace: i is at the first character of a value.
ScanElements(s, i, acc) ==
    LET val == ScanValue(s, i)
        after == SkipWs(s, val.i)
    IN  IF ~val.ok THEN ParseFail
        ELSE IF Ch(s, after) = "]" THEN ParseOk(JArr(Append(acc, val.v)), after + 1)
        ELSE IF Ch(s, after) # "," THEN ParseFail
        ELSE ScanElements(s, SkipWs(s, after + 1), Append(acc, val.v))

\* scan_once
ScanValue(s, i) ==
    LET c == Ch(s, i)
        j == SkipWs(s, i + 1)
    IN  CASE c = "\"" -> ScanString(s, i + 1, "")
          [] c = "{" ->
               IF Ch(s, j) = "}" THEN ParseOk(EmptyObj, j + 1)
               ELSE IF Ch(s, j) # "\"" THEN ParseFail
               ELSE ScanMembers(s, j, <<>>, EmptyMap)
          [] c = "[" ->
               IF Ch(s, j) = "]" THEN ParseOk(JArr(<<>>), j + 1)
               ELSE ScanElements(s, j, <<>>)
          [] c = "n" /\ StartsWith(s, i, "null") -> ParseOk(None, i + 4)
          [] c = "t" /\ StartsWith(s, i, "true") -> ParseOk(JBool(TRUE), i + 4)
          [] c = "f" /\ StartsWith(s, i, "false") -> ParseOk(JBool(FALSE), i + 5)
          [] c = "N" /\ StartsWith(s, i, "NaN") -> ParseOk(JNum(0), i + 3)
          [] c = "I" /\ StartsWith(s, i, "Infinity") -> ParseOk(JNum(0), i + 8)
          [] c = "-" /\ StartsWith(s, i, "-Infinity") -> ParseOk(JNum(0), i + 9)
          [] c = "-" \/ IsDigit(c) -> ScanNumber(s, i)
          [] OTHER -> ParseFail

\* The end of JSONDecoder.decode: r is the value raw_decode has scanned, and
\* only whitespace may follow it.
decode_end(s, r) ==
    IF r.ok /\ SkipWs(s, r.i) = Len(s) + 1 THEN r ELSE ParseFail

\* json.loads(s): one value, whitespace around it, nothing after.
json_loads(s) == decode_end(s, ScanValue(s, SkipWs(s, 1)))

(***************************************************************************)
(* json.dumps(v) with the default separators.                              *)
(***************************************************************************)
EscapeChar(c) ==
    CASE c = "\"" -> "\\\""
      [] c = "\\" -> "\\\\"
      [] c = "\n" -> "\\n"
      [] c = "\t" -> "\\t"
      [] c = "\r" -> "\\r"
      [] c = "\f" -> "\\f"
      [] OTHER -> c

\* Character by character; by halves, so that the recursion stays shallow.
RECURSIVE Escape(_)
Escape(s) ==
    IF Len(s) = 0 THEN ""
    ELSE IF Len(s) = 1 THEN EscapeChar(s)
    ELSE Escape(SubSeq(s, 1, Len(s) \div 2))
             \o Escape(SubSeq(s, (Len(s) \div 2) + 1, Len(s)))

Quote(s) == "\"" \o Escape(s) \o "\""

RECURSIVE json_dumps(_)
RECURSIVE DumpItems(_, _)
RECURSIVE DumpMembers(_, _, _)

DumpItems(a, i) ==
    IF i > Len(a) THEN ""
    ELSE (IF i > 1 THEN ", " ELSE "") \o json_dumps(a[i]) \o DumpItems(a, i + 1)

DumpMembers(ks, m, i) ==
    IF i > Len(ks) THEN ""
    ELSE (IF i > 1 THEN ", " ELSE "") \o Quote(ks[i]) \o ": "
             \o json_dumps(m[ks[i]]) \o DumpMembers(ks, m, i + 1)

json_dumps(v) ==
    CASE v.t = "null" -> "null"
      [] v.t = "bool" -> IF v.b THEN "true" ELSE "false"
      [] v.t = "num" -> IF v.n < 0 THEN "-" \o IntToStr(0 - v.n) ELSE IntToStr(v.n)
      [] v.t = "str" -> Quote(v.s)
      [] v.t = "arr" -> "[" \o DumpItems(v.a, 1) \o "]"
      [] v.t = "obj" -> "{" \o DumpMembers(v.ks, v.m, 1) \o "}"

(***************************************************************************)
(* The caller's side: what an API gateway client does to build an event.   *)
(* str.encode("utf-8") of ASCII text, and base64.b64encode.                *)
(***************************************************************************)
Ord(c) ==
    CASE c = "\t" -> 9
      [] c = "\n" -> 10
      [] c = "\r" -> 13
      [] OTHER -> CharIndex(Printable, c) + 31

RECURSIVE utf8_encode(_)
utf8_encode(s) ==
    IF Len(s) = 0 THEN <<>>
    ELSE IF Len(s) = 1 THEN <<Ord(s)>>
    ELSE utf8_encode(SubSeq(s, 1, Len(s) \div 2))
             \o utf8_encode(SubSeq(s, (Len(s) \div 2) + 1, Len(s)))

B64Char(v) == Ch(B64Alphabet, v + 1)

RECURSIVE b64encode(_)
b64encode(bs) ==
    IF Len(bs) = 0 THEN ""
    ELSE IF Len(bs) = 1
    THEN B64Char(bs[1] \div 4) \o B64Char((bs[1] % 4) * 16) \o "=="
    ELSE IF Len(bs) = 2
    THEN B64Char(bs[1] \div 4) \o B64Char((bs[1] % 4) * 16 + (bs[2] \div 16))
             \o B64Char((bs[2] % 16) * 4) \o "="
    ELSE B64Char(bs[1] \div 4) \o B64Char((bs[1] % 4) * 16 + (bs[2] \div 16))
             \o B64Char((bs[2] % 16) * 4 + (bs[3] \div 64)) \o B64Char(bs[3] % 64)
             \o b64encode(SubSeq(bs, 4, Len(bs)))


(***************************************************************************)
(* The inputs of the model.                                                *)
(*                                                                         *)
(* An event is what API Gateway hands to the handler: body and             *)
(* isBase64Encoded, each a Python value (None when the key is absent).     *)
(* Beside it stands what the caller meant, which the handler never sees:   *)
(*   form "json_object": the body is json.dumps of the payload;            *)
(*   form "json_other":  the body is valid JSON but no object;             *)
(*   form "not_json":    the body is text that is no JSON;                 *)
(*   form "bad_base64":  the flag is set and the body does not decode;     *)
(*   form "empty":       the body is absent or the empty string.           *)
(***************************************************************************)
Absent == [t |-> "absent"]

Descriptions ==
    {Absent, None, JStr(""), JStr(" \t"), JStr("  Engine rattles\n")}
Medias == {Absent, None, JStr(""), JStr("aGk="), JStr("abc")}
Filenames == {Absent, JStr("photo.png"), JStr("a/b/photo.png"), JStr("notes")}

\* The JSON object a client builds from the fields it has.
MakePayload(d, m, f) ==
    LET ks == (IF d = Absent THEN <<>> ELSE <<"description">>)
                 \o (IF m = Absent THEN <<>> ELSE <<"media">>)
                 \o (IF f = Absent THEN <<>> ELSE <<"filename">>)
        keys == {ks[i] : i \in 1..Len(ks)}
    IN  JObj(ks, [k \in keys |->
                     CASE k = "description" -> d
                       [] k = "media" -> m
                       [] k = "filename" -> f])

Sent(form, payload) == [form |-> form, payload |-> payload]
Event(body, flag) == [body |-> body, isBase64Encoded |-> flag]
Input(ev, what) == [event |-> ev, sent |-> what]

ObjectInputs ==
    {Input(Event(JStr(json_dumps(MakePayload(d, m, f))), None),
           Sent("json_object", MakePayload(d, m, f))) :
        d \in Descriptions, m \in Medias, f \in Filenames}

EncodedPayloads ==
    {MakePayload(d, mf[1], mf[2]) :
        d \in {Absent, JStr("Engine rattles")},
        mf \in {<<Absent, Absent>>, <<JStr("aGk="), JStr("a/b/photo.png")>>}}

EncodedInputs ==
    {Input(Event(JStr(b64encode(utf8_encode(json_dumps(p)))), JBool(TRUE)),
           Sent("json_object", p)) : p \in EncodedPayloads}

TextInputs ==
    {Input(Event(None, None), Sent("empty", None)),
     Input(Event(JStr(""), None), Sent("empty", None)),
     Input(Event(JStr(""), JBool(FALSE)), Sent("empty", None)),
     Input(Event(None, JBool(TRUE)), Sent("empty", None)),
     Input(Event(JStr(""), JBool(TRUE)), Sent("empty", None)),
     Input(Event(JStr("not json"), None), Sent("not_json", None)),
     Input(Event(JStr("{\"description\": \"Engine rattles\""), None),
           Sent("not_json", None)),
     Input(Event(JStr("{'description': 'Engine rattles'}"), None),
           Sent("not_json", None)),
     Input(Event(JStr(b64encode(utf8_encode("not json"))), JBool(TRUE)),
           Sent("not_json", None)),
     Input(Event(JStr("e30"), JBool(TRUE)), Sent("bad_base64", None)),
     Input(Event(JStr("e"), JBool(TRUE)), Sent("bad_base64", None)),
     Input(Event(JStr("////"), JBool(TRUE)), Sent("bad_base64", None)),
     Input(Event(JStr("[]"), None), Sent("json_other", JArr(<<>>))),
     Input(Event(JStr("42"), None), Sent("json_other", JNum(42))),
     Input(Event(JStr("null"), None), Sent("json_other", None)),
     Input(Event(JStr("\"Engine rattles\""), None),
           Sent("json_other", JStr("Engine rattles")))}

Inputs == ObjectInputs \cup EncodedInputs \cup TextInputs

(***************************************************************************)
(* What the collaborators may answer.                                      *)
(*                                                                         *)
(* The S3 client's put_object and generate_presigned_url return, or raise  *)
(* a botocore exception: a BotoCoreError (no credentials, endpoint not     *)
(* reachable) or, for an error response of the service, a ClientError,     *)
(* which is no subclass of BotoCoreError.                                  *)
(*                                                                         *)
(* The OpenAI client has the responses API, only the chat API, or          *)
(* neither; create raises an openai error or returns a completion.         *)
(***************************************************************************)
PutOutcomes == {"ok", "BotoCoreError", "ClientError"}
UrlOutcomes == {"ok", "BotoCoreError"}

ModelTexts ==
    {"", " \n",
     "Check the battery terminals.",
     "{\"summary\":\"S\",\"potential_causes\":[\"A\"],\"safety_checks\":[],\"recommended_actions\":[\"B\"]}",
     " {\"summary\": \"S\"} ",
     "{\"potential_causes\": [\"A\", \"B\"]}",
     "{\"summary\": \"\"}",
     "{\"summary\": null, \"safety_checks\": [\"C\"]}",
     "{\"summary\": \"S\", \"potential_causes\": null}",
     "{\"summary\": \"S\"",
     "[\"A\"]", "42"}

Reply(api, raises, output_text, choices) ==
    [api |-> api, raises |-> raises, output_text |-> output_text,
     choices |-> choices]

ResponsesReplies ==
    {Reply("responses", TRUE, None, <<>>), Reply("responses", FALSE, None, <<>>)}
        \cup {Reply("responses", FALSE, JStr(t), <<>>) : t \in ModelTexts}

ChatContents ==
    {None, JStr("{\"summary\": \"S\"}"),
     JArr(<<JObj(<<"type", "text">>,
                 ("type" :> JStr("text")) @@ ("text" :> JStr("{\"summary\": "))),
            JStr("skipped"),
            JObj(<<"type">>, ("type" :> JStr("image"))),
            JObj(<<"text">>, ("text" :> JStr("\"S\"}"))) >>)}

ChatReplies ==
    {Reply("chat", TRUE, None, <<>>), Reply("chat", FALSE, None, <<>>)}
        \cup {Reply("chat", FALSE, None, <<c>>) : c \in ChatContents}

Replies == ResponsesReplies \cup ChatReplies \cup {Reply("neither", FALSE, None, <<>>)}

(***************************************************************************)
(* The text of the body and of the model's reply.                          *)
(***************************************************************************)
\* event.get("body") or "{}"
BodyText(ev) == IF Truthy(ev.body) THEN ev.body.s ELSE "{}"

\* bytes.decode("utf-8") of what b64decode returned.
decode_bytes(binary) ==
    IF binary.ok THEN utf8_decode(binary.bytes) ELSE [ok |-> FALSE, s |-> ""]

\* The body as text: base64.b64decode(body).decode("utf-8") if the flag is set.
DecodedText(ev) ==
    IF Truthy(ev.isBase64Encoded) THEN decode_bytes(b64decode(BodyText(ev)))
    ELSE [ok |-> TRUE, s |-> BodyText(ev)]

RECURSIVE JoinText(_, _)
JoinText(parts, i) ==
    IF i > Len(parts) THEN ""
    ELSE (IF parts[i].t = "obj"
          THEN DictGet(parts[i], "text", JStr("")).s ELSE "")
             \o JoinText(parts, i + 1)

\* The text _invoke_openai takes out of the completion (lines 129-154).
ExtractText(reply) ==
    IF reply.api = "responses"
    THEN IF Truthy(reply.output_text) THEN reply.output_text.s ELSE ""
    ELSE IF Len(reply.choices) = 0 THEN ""
    ELSE LET content == reply.choices[1]
         IN  IF content.t = "arr" THEN JoinText(content.a, 1)
             ELSE IF Truthy(content) THEN content.s ELSE ""

OPENAI_MODEL == "gpt-4o-mini"

(***************************************************************************)
(* Exceptions: the class (as the except clause sees it), str(exc), and the *)
(* call that raised it.                                                    *)
(***************************************************************************)
NoExc == [cls |-> "none", msg |-> "", at |-> ""]
Exc(cls, msg, at) == [cls |-> cls, msg |-> msg, at |-> at]

TypeName(v) ==
    CASE v.t = "null" -> "NoneType"
      [] v.t = "bool" -> "bool"
      [] v.t = "num" -> "int"
      [] v.t = "str" -> "str"
      [] v.t = "arr" -> "list"
      [] v.t = "obj" -> "dict"

NoAttribute(v, name, at) ==
    Exc("AttributeError",
        "'" \o TypeName(v) \o "' object has no attribute '" \o name \o "'", at)

CollaboratorError(cls, at) ==
    Exc(cls,
        IF cls = "ClientError"
        THEN "An error occurred (AccessDenied) when calling the PutObject operation: Access Denied"
        ELSE IF cls = "APIError" THEN "Connection error."
        ELSE "An unspecified error occurred",
        at)

(***************************************************************************)
(* DiagnosticRequest.from_event                                            *)
(***************************************************************************)
NoRequest == [description |-> "", media_base64 |-> None, media_filename |-> None]

RequestError(exc) == [exc |-> exc, request |-> NoRequest]

\* cls(description=..., media_base64=payload.get("media"),
\*     media_filename=payload.get("filename")), after the check of line 64.
from_description(payload, description) ==
    IF description = ""
    THEN RequestError(Exc("ValueError", "Description is required", "from_event"))
    ELSE [exc |-> NoExc,
          request |-> [description |-> description,
                       media_base64 |-> DictGet(payload, "media", None),
                       media_filename |-> DictGet(payload, "filename", None)]]

\* description = payload.get("description", "").strip()
from_payload(payload, description) ==
    IF description.t # "str"
    THEN RequestError(NoAttribute(description, "strip", "from_event"))
    ELSE from_description(payload, strip(description.s))

\* The except clause of line 60, and payload.get on what json.loads returned.
from_parsed(parsed) ==
    IF ~parsed.ok
    THEN RequestError(Exc("ValueError", "Request body is not valid JSON", "from_event"))
    ELSE IF parsed.v.t # "obj"
    THEN RequestError(NoAttribute(parsed.v, "get", "from_event"))
    ELSE from_payload(parsed.v, DictGet(parsed.v, "description", JStr("")))

\* payload = json.loads(body), if the body could be decoded.
loads_decoded(decoded) ==
    IF decoded.ok THEN json_loads(decoded.s) ELSE ParseFail

from_event_empty_is_error(ev) ==
    IF Truthy(ev.body) THEN from_parsed(loads_decoded(DecodedText(ev)))
    ELSE from_parsed(ParseFail)

\* DiagnosticRequest.from_event: body = event.get("body") or "{}", base64-
\* decoded if the flag is set, then json.loads.
from_event(ev) == from_parsed(loads_decoded(DecodedText(ev)))

(***************************************************************************)
(* utils/s3_helper.py                                                      *)
(***************************************************************************)
RECURSIVE RFindDot(_, _)
RFindDot(s, i) ==
    IF i = 0 THEN 0 ELSE IF Ch(s, i) = "." THEN i ELSE RFindDot(s, i - 1)

\* The extension of a file name, with its dot; "" if it has none.
Extension(base, dot) == IF dot > 1 THEN SubSeq(base, dot, Len(base)) ELSE ""

ExtensionOf(base) == Extension(base, RFindDot(base, Len(base)))

TypeOfExtension(ext) ==
    CASE ext = ".png" -> "image/png"
      [] ext \in {".jpg", ".jpeg"} -> "image/jpeg"
      [] ext = ".mp4" -> "video/mp4"
      [] OTHER -> "application/octet-stream"

\* mimetypes.guess_type(filename), for the types the model uploads.
_guess_content_type(filename) == TypeOfExtension(ExtensionOf(basename(filename)))

object_key_no_timestamp(timestamp, filename) == "uploads/" \o basename(filename)

\* key = f"uploads/{timestamp}-{os.path.basename(filename)}"
object_key(timestamp, filename) ==
    "uploads/" \o IntToStr(timestamp) \o "-" \o basename(filename)

S3Object(bucket, key, presigned_url) ==
    [t |-> "S3Object", bucket |-> bucket, key |-> key,
     presigned_url |-> presigned_url]

PutCall(bucket, key, body, content_type) ==
    [t |-> "put_object", Bucket |-> bucket, Key |-> key, Body |-> body,
     ContentType |-> content_type]

\* What the store holds after put_object(Bucket, Key, Body, ContentType).
Written(store, key, body, content_type) ==
    [k \in (DOMAIN store) \cup {key} |->
        IF k = key THEN [Body |-> body, ContentType |-> content_type]
        ELSE store[k]]

PresignedUrl(bucket, key) ==
    "https://" \o bucket \o ".s3.amazonaws.com/" \o key
        \o "?X-Amz-Expires=" \o IntToStr(ExpiresIn)

UploadResult(exc, media_object, store, steps, put_call) ==
    [exc |-> exc, media_object |-> media_object, objects |-> store,
     steps |-> steps, put_call |-> put_call]

\* client.put_object(...) and client.generate_presigned_url(...); put and
\* url are what the two calls answer.
put_and_presign(bucket, key, body, content_type, store, put, url) ==
    IF put # "ok"
    THEN UploadResult(
             CollaboratorError(put, "put_object"), None, store,
             <<"boto3.client", "b64decode", "_guess_content_type", "put_object">>,
             PutCall(bucket, key, body, content_type))
    ELSE IF url # "ok"
    THEN UploadResult(
             CollaboratorError(url, "generate_presigned_url"), None,
             Written(store, key, body, content_type),
             <<"boto3.client", "b64decode", "_guess_content_type", "put_object",
               "generate_presigned_url">>,
             PutCall(bucket, key, body, content_type))
    ELSE UploadResult(
             NoExc, S3Object(bucket, key, PresignedUrl(bucket, key)),
             Written(store, key, body, content_type),
             <<"boto3.client", "b64decode", "_guess_content_type", "put_object",
               "generate_presigned_url">>,
             PutCall(bucket, key, body, content_type))

\* From the except clause of the decoding to the key of the object.
upload_binary(bucket, binary_data, filename, timestamp, store, put, url) ==
    IF ~binary_data.ok
    THEN UploadResult(
             Exc("ValueError", "Invalid base64 payload provided", "b64decode"),
             None, store, <<"boto3.client", "b64decode">>, None)
    ELSE IF filename.t # "str"
    THEN UploadResult(
             Exc("TypeError",
                 "expected str, bytes or os.PathLike object, not " \o TypeName(filename),
                 "_guess_content_type"),
             None, store, <<"boto3.client", "b64decode", "_guess_content_type">>, None)
    ELSE put_and_presign(bucket, object_key(timestamp, filename.s), binary_data.bytes,
                         _guess_content_type(filename.s), store, put, url)

\* timestamp is int(time.time()) at the call.
upload_media_from_base64(bucket, base64_payload, filename, timestamp, store, put, url) ==
    IF ~boto3
    THEN UploadResult(
             Exc("RuntimeError",
                 "boto3 is required to upload media. Install it with 'pip3 install boto3'.",
                 "_get_s3_client"),
             None, store, <<>>, None)
    ELSE IF base64_payload.t # "str"
    THEN UploadResult(
             Exc("TypeError",
                 "argument should be a bytes-like object or ASCII string, not '"
                     \o TypeName(base64_payload) \o "'",
                 "b64decode"),
             None, store, <<"boto3.client", "b64decode">>, None)
    ELSE upload_binary(bucket, b64decode(base64_payload.s), filename, timestamp,
                       store, put, url)

(***************************************************************************)
(* _build_messages                                                         *)
(***************************************************************************)
SystemPrompt ==
    "You are an experienced automotive mechanic. Analyse the user's description and the provided media to produce a concise diagnostic report."

_build_messages(request, media_object) ==
    LET text == [type |-> "text",
                 text |-> "User description: " \o request.description]
        image == [type |-> "input_image",
                  image_url |-> [url |-> media_object.presigned_url]]
        user_content == IF media_object # None THEN <<text, image>> ELSE <<text>>
    IN  << [role |-> "system", content |-> SystemPrompt],
           [role |-> "user", content |-> user_content] >>

(***************************************************************************)
(* _invoke_openai                                                          *)
(***************************************************************************)
DiagnosticResponse(summary, potential_causes, safety_checks, recommended_actions) ==
    [t |-> "DiagnosticResponse", summary |-> summary,
     potential_causes |-> potential_causes, safety_checks |-> safety_checks,
     recommended_actions |-> recommended_actions]

\* DiagnosticResponse.as_dict
as_dict(r) ==
    JObj(<<"summary", "potential_causes", "safety_checks", "recommended_actions">>,
         [k \in {"summary", "potential_causes", "safety_checks", "recommended_actions"} |->
             CASE k = "summary" -> r.summary
               [] k = "potential_causes" -> r.potential_causes
               [] k = "safety_checks" -> r.safety_checks
               [] k = "recommended_actions" -> r.recommended_actions])

\* list(v) succeeds on a list, a str (its characters) and a dict (its keys).
Listable(v) == v.t \in {"arr", "str", "obj"}

list(v) ==
    CASE v.t = "arr" -> v
      [] v.t = "str" -> JArr([i \in 1..Len(v.s) |-> JStr(Ch(v.s, i))])
      [] v.t = "obj" -> JArr([i \in 1..Len(v.ks) |-> JStr(v.ks[i])])

ModelCall(api, messages) ==
    [t |-> "create", api |-> api, model |-> OPENAI_MODEL, messages |-> messages,
     max_tokens |-> MaxOutputTokens]

InvokeResult(exc, diagnosis, steps, model_call) ==
    [exc |-> exc, diagnosis |-> diagnosis, steps |-> steps,
     model_call |-> model_call]

CreateStep(reply) ==
    IF reply.api = "responses" THEN "responses.create"
    ELSE "chat.completions.create"

\* The steps of a call that got to the API, and the call it made.
CreateSteps(reply) == <<"_init_openai_client", "openai.OpenAI", CreateStep(reply)>>

\* list(...) of the three lists, after summary has been read (lines 164-167).
response_of_fields(summary, causes, checks, actions, steps, call) ==
    IF ~(Listable(causes) /\ Listable(checks) /\ Listable(actions))
    THEN InvokeResult(Exc("TypeError", "object is not iterable", "_invoke_openai"),
                      None, steps, call)
    ELSE InvokeResult(
             NoExc, DiagnosticResponse(summary, list(causes), list(checks), list(actions)),
             steps, call)

\* The try block of lines 161-175: parsed is what json.loads(text) returned.
response_of_parsed(text, parsed, steps, call) ==
    IF ~parsed.ok
    THEN InvokeResult(
             NoExc, DiagnosticResponse(JStr(text), JArr(<<>>), JArr(<<>>), JArr(<<>>)),
             steps, call)
    ELSE IF parsed.v.t # "obj"
    THEN InvokeResult(NoAttribute(parsed.v, "get", "_invoke_openai"), None, steps, call)
    ELSE response_of_fields(DictGet(parsed.v, "summary", JStr(text)),
                            DictGet(parsed.v, "potential_causes", JArr(<<>>)),
                            DictGet(parsed.v, "safety_checks", JArr(<<>>)),
                            DictGet(parsed.v, "recommended_actions", JArr(<<>>)),
                            steps, call)

response_of_text_no_empty_check(text, steps, call) ==
    response_of_parsed(text, json_loads(text), steps \o <<"json.loads">>, call)

\* text is the stripped text of the completion (lines 156-158).
response_of_text(text, steps, call) ==
    IF text = ""
    THEN InvokeResult(
             Exc("RuntimeError", "OpenAI returned an empty response", "_invoke_openai"),
             None, steps, call)
    ELSE response_of_parsed(text, json_loads(text), steps \o <<"json.loads">>, call)

\* reply is the client _init_openai_client returns and what its create
\* answers.
_invoke_openai(messages, reply) ==
    IF ~Truthy(OPENAI_API_KEY)
    THEN InvokeResult(
             Exc("RuntimeError", "OPENAI_API_KEY environment variable is not set",
                 "_init_openai_client"),
             None, <<"_init_openai_client">>, None)
    ELSE IF reply.api = "neither"
    THEN InvokeResult(
             Exc("RuntimeError",
                 "OpenAI client does not support responses or chat completions APIs",
                 "_invoke_openai"),
             None, <<"_init_openai_client", "openai.OpenAI">>, None)
    ELSE IF reply.raises
    THEN InvokeResult(CollaboratorError("APIError", CreateStep(reply)), None,
                      CreateSteps(reply), ModelCall(reply.api, messages))
    ELSE response_of_text(strip(ExtractText(reply)), CreateSteps(reply),
                          ModelCall(reply.api, messages))

(***************************************************************************)
(* lambda_handler                                                          *)
(***************************************************************************)
JsonHeaders == [ContentType |-> "application/json"]
Response(statusCode, body) ==
    [t |-> "response", statusCode |-> statusCode, headers |-> JsonHeaders,
     body |-> body]

ErrorBody(message) == json_dumps(JObj(<<"error">>, ("error" :> JStr(message))))

\* except (ValueError, RuntimeError, botocore.exceptions.BotoCoreError)
Catches(exc) == exc.cls \in {"ValueError", "RuntimeError", "BotoCoreError"}

\* What an invocation did: the response it returned (None if an exception
\* left the handler), the exception that left it, the exception it caught,
\* the calls in the order they were made, the bucket after them, and the
\* handler's locals: request, media_object, messages and what the calls got.
Outcome(response, raised, caught, steps, request, up, messages, inv) ==
    [response |-> response, raised |-> raised, caught |-> caught,
     steps |-> steps, objects |-> up.objects, request |-> request,
     put_call |-> up.put_call, media_object |-> up.media_object,
     messages |-> messages, model_call |-> inv.model_call,
     diagnosis |-> inv.diagnosis]

NoUpload(store) == UploadResult(NoExc, None, store, <<>>, None)
NoInvoke == InvokeResult(NoExc, None, <<>>, None)

\* The except clause and what falls through it.
Failed(exc, steps, request, up, messages, inv) ==
    IF Catches(exc)
    THEN Outcome(Response(400, ErrorBody(exc.msg)), NoExc, exc,
                 steps \o <<"return">>, request, up, messages, inv)
    ELSE Outcome(None, exc, NoExc, steps, request, up, messages, inv)

WantsUpload_either(request) ==
    Truthy(request.media_base64) \/ Truthy(request.media_filename)

\* if request.media_base64 and request.media_filename:
WantsUpload(request) ==
    Truthy(request.media_base64) /\ Truthy(request.media_filename)

\* The return of lines 198-202, or the exception of _invoke_openai.
handle_diagnosis(request, up, messages, inv) ==
    IF inv.exc # NoExc
    THEN Failed(inv.exc,
                <<"from_event">> \o up.steps \o <<"_build_messages">> \o inv.steps,
                request, up, messages, inv)
    ELSE Outcome(Response(200, json_dumps(as_dict(inv.diagnosis))), NoExc, NoExc,
                 <<"from_event">> \o up.steps \o <<"_build_messages">> \o inv.steps
                     \o <<"return">>,
                 request, up, messages, inv)

\* response = _invoke_openai(messages)
handle_messages(request, up, messages, reply) ==
    handle_diagnosis(request, up, messages, _invoke_openai(messages, reply))

\* messages = _build_messages(request, media_object), unless the upload raised.
handle_media(request, up, reply) ==
    IF up.exc # NoExc
    THEN Failed(up.exc, <<"from_event">> \o up.steps, request, up, <<>>, NoInvoke)
    ELSE handle_messages(request, up, _build_messages(request, up.media_object), reply)

handle_request_model_first(parsed, store, timestamp, put, url, reply) ==
    LET request == parsed.request
        messages == _build_messages(request, None)
        inv == _invoke_openai(messages, reply)
        up == upload_media_from_base64(S3_BUCKET.s, request.media_base64,
                                       request.media_filename, timestamp, store,
                                       put, url)
    IN  IF parsed.exc # NoExc
        THEN Failed(parsed.exc, <<"from_event">>, NoRequest, NoUpload(store), <<>>, NoInvoke)
        ELSE IF ~(WantsUpload(request) /\ Truthy(S3_BUCKET) /\ inv.exc = NoExc)
        THEN handle_diagnosis(request, NoUpload(store), messages, inv)
        ELSE IF up.exc # NoExc
        THEN Failed(up.exc, <<"from_event", "_build_messages">> \o inv.steps \o up.steps,
                    request, up, messages, inv)
        ELSE Outcome(Response(200, json_dumps(as_dict(inv.diagnosis))), NoExc, NoExc,
                     <<"from_event", "_build_messages">> \o inv.steps \o up.steps
                         \o <<"return">>,
                     request, up, messages, inv)

handle_request_credential_first(parsed, store, timestamp, put, url, reply) ==
    IF parsed.exc # NoExc
    THEN Failed(parsed.exc, <<"from_event">>, NoRequest, NoUpload(store), <<>>, NoInvoke)
    ELSE IF ~Truthy(OPENAI_API_KEY)
    THEN Failed(Exc("RuntimeError", "OPENAI_API_KEY environment variable is not set",
                    "_init_openai_client"),
                <<"from_event", "_init_openai_client">>, parsed.request,
                NoUpload(store), <<>>, NoInvoke)
    ELSE IF WantsUpload(parsed.request) /\ ~Truthy(S3_BUCKET)
    THEN Failed(Exc("RuntimeError", "S3_BUCKET environment variable is not set",
                    "lambda_handler"),
                <<"from_event">>, parsed.request, NoUpload(store), <<>>, NoInvoke)
    ELSE handle_media(
             parsed.request,
             IF WantsUpload(parsed.request)
             THEN upload_media_from_base64(S3_BUCKET.s, parsed.request.media_base64,
                                           parsed.request.media_filename, timestamp,
                                           store, put, url)
             ELSE NoUpload(store),
             reply)

handle_request_upload_unchecked(parsed, store, timestamp, put, url, reply) ==
    IF parsed.exc # NoExc
    THEN Failed(parsed.exc, <<"from_event">>, NoRequest, NoUpload(store), <<>>, NoInvoke)
    ELSE handle_media(
             parsed.request,
             IF Truthy(parsed.request.media_filename)
             THEN upload_media_from_base64(
                      IF Truthy(S3_BUCKET) THEN S3_BUCKET.s ELSE "",
                      IF Truthy(parsed.request.media_base64)
                      THEN parsed.request.media_base64 ELSE JStr(""),
                      parsed.request.media_filename, timestamp, store, put, url)
             ELSE NoUpload(store),
             reply)

\* The body of the try block after from_event: the bucket is checked and the
\* media uploaded only if the request carries both media and a file name.
handle_request(parsed, store, timestamp, put, url, reply) ==
    IF parsed.exc # NoExc
    THEN Failed(parsed.exc, <<"from_event">>, NoRequest, NoUpload(store), <<>>, NoInvoke)
    ELSE IF WantsUpload(parsed.request) /\ ~Truthy(S3_BUCKET)
    THEN Failed(Exc("RuntimeError", "S3_BUCKET environment variable is not set",
                    "lambda_handler"),
                <<"from_event">>, parsed.request, NoUpload(store), <<>>, NoInvoke)
    ELSE handle_media(
             parsed.request,
             IF WantsUpload(parsed.request)
             THEN upload_media_from_base64(S3_BUCKET.s, parsed.request.media_base64,
                                           parsed.request.media_filename, timestamp,
                                           store, put, url)
             ELSE NoUpload(store),
             reply)

\* One invocation, from the event to the response or the exception that
\* leaves the handler; store is the bucket, timestamp the clock, and put, url
\* and reply are the collaborators' answers.
lambda_handler(ev, store, timestamp, put, url, reply) ==
    handle_request(from_event(ev), store, timestamp, put, url, reply)

(***************************************************************************)
(* The state machine.                                                      *)
(***************************************************************************)
Has(steps, op) == \E i \in 1..Len(steps) : steps[i] = op

NoEvent == Event(None, None)
NoSent == Sent("none", None)
Answers(put, url, reply) == [put |-> put, url |-> url, reply |-> reply]
NoAnswers == Answers("unasked", "unasked", None)
NoOutcome ==
    Outcome(None, NoExc, NoExc, <<>>, NoRequest, NoUpload(EmptyMap), <<>>, NoInvoke)
SomeReply == Reply("responses", FALSE, JStr("Check the battery terminals."), <<>>)

\* Every combination of answers, asked for or not.
AllAnswers ==
    [put : PutOutcomes \cup {"unasked"}, url : UrlOutcomes \cup {"unasked"},
     reply : Replies \cup {None, SomeReply}]

Init ==
    /\ S3_BUCKET \in {None, JStr(""), JStr("mechanic-media")}
    /\ OPENAI_API_KEY \in {None, JStr("sk-test")}
    /\ boto3 \in BOOLEAN
    /\ objects = EmptyMap
    /\ now = 0
    /\ phase = "idle"
    /\ event = NoEvent
    /\ sent = NoSent
    /\ answers = NoAnswers
    /\ outcome = NoOutcome
    /\ before = EmptyMap
    /\ uploads = <<>>

\* The invocation with the answers a, as the variables record it.
Record(i, a, out) ==
    /\ event' = i.event
    /\ sent' = i.sent
    /\ answers' = a
    /\ outcome' = out
    /\ before' = objects
    /\ objects' = out.objects
    /\ uploads' =
         IF out.put_call # None /\ a.put = "ok"
         THEN Append(uploads, [timestamp |-> now,
                               filename |-> out.request.media_filename.s,
                               key |-> out.put_call.Key])
         ELSE uploads
    /\ phase' = "done"
    /\ UNCHANGED <<config, now>>

\* run[a] is the invocation on the input i with the answers a.  An answer is
\* drawn only if the handler gets to ask for it.
Deliver(i, run) ==
    \E put \in (IF Has(run[Answers("ok", "ok", SomeReply)].steps, "put_object")
                THEN PutOutcomes ELSE {"unasked"}) :
    \E url \in (IF put = "ok" THEN UrlOutcomes ELSE {"unasked"}) :
    \E reply \in (IF Has(run[Answers(put, url, SomeReply)].steps, "openai.OpenAI")
                  THEN Replies ELSE {None}) :
        Record(i, Answers(put, url, reply), run[Answers(put, url, reply)])

\* The Lambda runtime delivers an event and lambda_handler runs on it.
Invoke ==
    /\ phase = "idle"
    /\ Len(uploads) < MaxUploads
    /\ \E i \in Inputs :
         Deliver(i, [a \in AllAnswers |->
                        lambda_handler(i.event, objects, now, a.put, a.url, a.reply)])

\* The invocation is over: its locals are gone, the bucket stays.
Finish ==
    /\ phase = "done"
    /\ phase' = "idle"
    /\ event' = NoEvent
    /\ sent' = NoSent
    /\ answers' = NoAnswers
    /\ outcome' = NoOutcome
    /\ before' = objects
    /\ UNCHANGED <<config, objects, now, uploads>>

\* A second passes.
Tick ==
    /\ phase = "idle"
    /\ now < MaxTime
    /\ now' = now + 1
    /\ UNCHANGED <<config, objects, phase, event, sent, answers,
                   outcome, before, uploads>>

Next == Invoke \/ Finish \/ Tick

Spec == Init /\ [][Next]_vars

(***************************************************************************)
(* The properties.  They are stated over a finished invocation: what was   *)
(* sent, what the collaborators answered and what the handler did.         *)
(***************************************************************************)
Done == phase = "done"

\* The exception of the invocation, caught or not; NoExc if there was none.
Fault == IF outcome.raised # NoExc THEN outcome.raised ELSE outcome.caught

Returned(code) ==
    outcome.response # None /\ outcome.response.statusCode = code

\* The status-400 envelope whose body is {"error": message}.
ReturnedError(message) ==
    /\ Returned(400)
    /\ outcome.raised = NoExc
    /\ outcome.response.body = "{\"error\": \"" \o message \o "\"}"

\* s is empty or holds only whitespace.
Blank(s) == \A i \in 1..Len(s) : Ch(s, i) \in {" ", "\t", "\n", "\r", "\f"}

\* A field of the JSON object the caller sent; None if it sent none.
Field(name) ==
    IF sent.form = "json_object" /\ name \in DOMAIN sent.payload.m
    THEN sent.payload.m[name] ELSE None

SentDescription == Field("description").t = "str" /\ ~Blank(Field("description").s)
SentMedia == Truthy(Field("media"))
SentFilename == Truthy(Field("filename"))

ModelCalls == {"responses.create", "chat.completions.create"}
StoreCalls == {"boto3.client", "put_object", "generate_presigned_url"}

CalledAny(ops) == \E i \in 1..Len(outcome.steps) : outcome.steps[i] \in ops

\* put_object was called and the store accepted the object.
Wrote == outcome.put_call # None /\ answers.put = "ok"

\* The object of this invocation's put_object is in the bucket, and nothing
\* that was in the bucket has been removed.
ObjectRemains ==
    /\ outcome.put_call.Key \in DOMAIN objects
    /\ objects[outcome.put_call.Key].Body = outcome.put_call.Body
    /\ DOMAIN before \subseteq DOMAIN objects

\* The model was asked and a completion came back.
GotReply ==
    /\ Done
    /\ answers.reply # None
    /\ answers.reply.api # "neither"
    /\ ~answers.reply.raises
    /\ CalledAny(ModelCalls)

\* The text taken out of the completion, before it is stripped.
ReplyText == ExtractText(answers.reply)

(***************************************************************************)
(* C1.  The four kinds of failure, by the call that raised them.           *)
(***************************************************************************)
InvalidInput(exc) ==
    exc.cls = "ValueError" /\ exc.at \in {"from_event", "b64decode"}
ConfigurationMissing(exc) == exc.at \in {"_init_openai_client", "lambda_handler"}
InfrastructureFault(exc) == exc.at \in {"put_object", "generate_presigned_url"}
EmptyModelOutput(exc) == exc.msg = "OpenAI returned an empty response"

EnumeratedFailure(exc) ==
    \/ InvalidInput(exc)
    \/ ConfigurationMissing(exc)
    \/ InfrastructureFault(exc)
    \/ EmptyModelOutput(exc)

\* C1: every failure of one of the four enumerated kinds (InvalidInput,
\* ConfigurationMissing, InfrastructureFault, EmptyModelOutput) makes
\* lambda_handler return the status-400 envelope {"error": message}, and none
\* of them leaves the handler as an exception.
C1_EnumeratedFailuresReturn400 ==
    Done /\ EnumeratedFailure(Fault) => ReturnedError(Fault.msg)

(***************************************************************************)
(* C2.  Empty text of the model.                                           *)
(***************************************************************************)
EmptyResponseMessage == "OpenAI returned an empty response"

\* The handler returned the success envelope with an empty summary.
EmptySummary200 == Returned(200) /\ outcome.diagnosis.summary = JStr("")

\* C2 as claimed: an empty or whitespace-only text of the model gives the
\* 400 envelope of EmptyModelOutput, and no reply of the model whatever makes
\* the handler return status 200 with an empty summary.
C2_NeverEmptySummary ==
    GotReply =>
        /\ Blank(ReplyText) => ReturnedError(EmptyResponseMessage)
        /\ ~EmptySummary200

\* C2 amended: an empty or whitespace-only text of the model gives the 400
\* envelope of EmptyModelOutput and never status 200; a status 200 with an
\* empty summary is returned only for a text that is a JSON object whose
\* "summary" is the empty string.
C2_EmptyTextIsEmptyModelOutput ==
    GotReply =>
        /\ Blank(ReplyText) => ReturnedError(EmptyResponseMessage) /\ ~Returned(200)
        /\ EmptySummary200 =>
              /\ ~Blank(ReplyText)
              /\ json_loads(strip(ReplyText)).ok
              /\ json_loads(strip(ReplyText)).v.t = "obj"
              /\ DictGet(json_loads(strip(ReplyText)).v, "summary", None) = JStr("")

\* The model answered with whitespace only and the handler returned the error.
C2_Witness ==
    /\ GotReply
    /\ Blank(ReplyText)
    /\ ReplyText # ""
    /\ ReturnedError(EmptyResponseMessage)

(***************************************************************************)
(* C3.  Media without a bucket.                                            *)
(***************************************************************************)
BucketMessage == "S3_BUCKET environment variable is not set"

\* A valid request with media and a file name, and no bucket configured.
MediaWithoutBucket ==
    Done /\ SentDescription /\ SentMedia /\ SentFilename /\ ~Truthy(S3_BUCKET)

\* C3: for a valid request with both media and filename, if the bucket
\* configuration is absent the handler returns status 400 naming the missing
\* bucket configuration, and neither an object-store call (client creation,
\* write, URL generation) nor a model call is made in the invocation.
C3_NoBucketNoCalls ==
    MediaWithoutBucket =>
        /\ ReturnedError(BucketMessage)
        /\ ~CalledAny(StoreCalls)
        /\ ~CalledAny(ModelCalls \cup {"_init_openai_client", "openai.OpenAI"})
        /\ outcome.put_call = None
        /\ outcome.model_call = None
        /\ objects = before

\* A request with media arrived at a handler whose bucket is the empty string.
C3_Witness ==
    MediaWithoutBucket /\ S3_BUCKET = JStr("") /\ ReturnedError(BucketMessage)

(***************************************************************************)
(* C4.  When the upload step is entered.                                   *)
(***************************************************************************)
\* The upload step was entered: something of upload_media_from_base64 ran.
UploadEntered ==
    CalledAny(StoreCalls \cup {"b64decode", "_guess_content_type"})
        \/ outcome.put_call # None

\* C4: a valid request without media fields skips the upload step, and in
\* general the upload is entered (and a store write attempted) only when the
\* request passed validation and both the media payload and the filename
\* are present and non-empty; otherwise the bucket is left as it was.
C4_UploadOnlyWithBoth ==
    Done =>
        /\ UploadEntered => SentDescription /\ SentMedia /\ SentFilename
        /\ ~(SentDescription /\ SentMedia /\ SentFilename) =>
              ~UploadEntered /\ objects = before

\* Only the file name was supplied: the diagnosis was returned, no upload.
C4_Witness ==
    /\ Done
    /\ SentDescription
    /\ ~SentMedia
    /\ SentFilename
    /\ Truthy(S3_BUCKET)
    /\ Returned(200)
    /\ ~UploadEntered

(***************************************************************************)
(* C5.  No description.                                                    *)
(***************************************************************************)
DescriptionMessage == "Description is required"

\* The body is JSON and holds no description: it is no object, an object
\* without the field, or the field is an empty or whitespace-only string.
NoDescription ==
    \/ sent.form = "json_other"
    \/ /\ sent.form = "json_object"
       /\ \/ "description" \notin DOMAIN sent.payload.m
          \/ /\ Field("description").t = "str"
             /\ Blank(Field("description").s)

\* C5: for every envelope whose decoded JSON body has no description field,
\* or whose description is empty or whitespace only, the handler returns
\* status 400 saying that the description is required, and neither a store
\* write nor a model call occurs.
C5_NoDescriptionIs400 ==
    Done /\ NoDescription =>
        /\ ReturnedError(DescriptionMessage)
        /\ ~CalledAny(StoreCalls)
        /\ ~CalledAny(ModelCalls)

(***************************************************************************)
(* C6.  A body that is not JSON.                                           *)
(***************************************************************************)
JsonMessage == "Request body is not valid JSON"

FlagSet == Truthy(event.isBase64Encoded)

\* C6 as claimed: every envelope whose body, after base64 decoding when the
\* flag is set, is not valid JSON (an empty body and a body that fails
\* base64 decoding included) gets status 400 with the JSON-parse message.
C6_NotJsonIsJsonError ==
    Done /\ sent.form \in {"not_json", "bad_base64", "empty"} =>
        ReturnedError(JsonMessage)

\* C6 amended: a body that is present and is not valid JSON after decoding,
\* or that fails base64 decoding, gets status 400 with the JSON-parse
\* message, and so does an absent or empty body when the flag is set; an
\* absent or empty body without the flag is read as the object {} and gets
\* status 400 with the description message.
C6_NotJsonOrEmptyBody ==
    Done =>
        /\ sent.form \in {"not_json", "bad_base64"} => ReturnedError(JsonMessage)
        /\ sent.form = "empty" /\ FlagSet => ReturnedError(JsonMessage)
        /\ sent.form = "empty" /\ ~FlagSet => ReturnedError(DescriptionMessage)

\* A body with the flag set that is no base64 got the JSON-parse message.
C6_Witness ==
    Done /\ sent.form = "bad_base64" /\ FlagSet /\ ReturnedError(JsonMessage)

(***************************************************************************)
(* C7.  Response normalization as the specification prescribes it.         *)
(***************************************************************************)
Summarised(rawText) ==
    DiagnosticResponse(JStr(rawText), JArr(<<>>), JArr(<<>>), JArr(<<>>))

Structured(rawText, obj) ==
    DiagnosticResponse(DictGet(obj, "summary", JStr(rawText)),
                       DictGet(obj, "potential_causes", JArr(<<>>)),
                       DictGet(obj, "safety_checks", JArr(<<>>)),
                       DictGet(obj, "recommended_actions", JArr(<<>>)))

NormalizedFrom(rawText, parsed) ==
    IF parsed.ok /\ parsed.v.t = "obj" THEN Structured(rawText, parsed.v)
    ELSE Summarised(rawText)

Normalized(rawText) == NormalizedFrom(rawText, json_loads(rawText))

\* C7: over every non-empty text of the model the normalization is a total
\* binary split: a text that parses as a JSON object gives its fields (the
\* text for a missing summary, an empty sequence for a missing list), every
\* other text gives the text as summary and three empty lists; in both cases
\* a DiagnosticResponse is produced and the handler returns status 200.
C7_TotalBinarySplit ==
    GotReply /\ ~Blank(ReplyText) =>
        /\ Returned(200)
        /\ outcome.diagnosis = Normalized(strip(ReplyText))

(***************************************************************************)
(* C8.  The key of an uploaded object.                                     *)
(***************************************************************************)
NoSlash(b) == \A i \in 1..Len(b) : Ch(b, i) # "/"

\* b is the file name f with all its directory components stripped.
IsBaseNameOf(b, f) ==
    /\ NoSlash(b)
    /\ \/ f = b
       \/ /\ Len(f) > Len(b)
          /\ SubSeq(f, Len(f) - Len(b), Len(f)) = "/" \o b

BaseNameOf(f) ==
    CHOOSE b \in {SubSeq(f, i, Len(f)) : i \in 1..(Len(f) + 1)} : IsBaseNameOf(b, f)

KeyPrefix(u) == "uploads/" \o IntToStr(u.timestamp) \o "-"

\* The key of the upload u is uploads/T- followed by the base name.
KeyIsWellFormed(u) ==
    /\ Len(u.key) >= Len(KeyPrefix(u))
    /\ SubSeq(u.key, 1, Len(KeyPrefix(u))) = KeyPrefix(u)
    /\ IsBaseNameOf(SubSeq(u.key, Len(KeyPrefix(u)) + 1, Len(u.key)), u.filename)

\* C8: the object an upload writes at second T has the key uploads/T-
\* followed by the base name of the file name (a/b/photo.png gives
\* uploads/T-photo.png); over any sequence of uploads two of them write the
\* same key exactly when they fall in the same second and their file names
\* have the same base name.
C8_KeyIsTimestampAndBaseName ==
    /\ \A i \in 1..Len(uploads) :
          /\ KeyIsWellFormed(uploads[i])
          /\ uploads[i].key \in DOMAIN objects
          /\ uploads[i].filename = "a/b/photo.png" =>
                uploads[i].key = KeyPrefix(uploads[i]) \o "photo.png"
    /\ \A i, j \in 1..Len(uploads) :
          uploads[i].key = uploads[j].key <=>
              /\ uploads[i].timestamp = uploads[j].timestamp
              /\ BaseNameOf(uploads[i].filename) = BaseNameOf(uploads[j].filename)

\* Two uploads in one second, of photo.png and of a/b/photo.png, wrote one key.
C8_Witness ==
    \E i, j \in 1..Len(uploads) :
        /\ uploads[i].filename = "photo.png"
        /\ uploads[j].filename = "a/b/photo.png"
        /\ uploads[i].key = uploads[j].key
        /\ Cardinality(DOMAIN objects) = 1

(***************************************************************************)
(* C9.  The order of the steps of one invocation.                          *)
(***************************************************************************)
Times(ops) ==
    Cardinality({i \in 1..Len(outcome.steps) : outcome.steps[i] \in ops})

\* Every call among first comes before every call among then.
Precedes(first, then) ==
    \A i, j \in 1..Len(outcome.steps) :
        outcome.steps[i] \in first /\ outcome.steps[j] \in then => i < j

\* C9: within one invocation the steps run in sequence and each external
\* call happens at most once: the store write comes (and, when media is
\* supplied, has succeeded) before the conversation is composed and before
\* the model call, the model call comes before the response is normalized
\* and returned, the model is not called once request normalization or the
\* upload has failed, and no store write or model call is repeated.
C9_StepsInSequence ==
    Done =>
        /\ Times({"put_object"}) <= 1
        /\ Times({"generate_presigned_url"}) <= 1
        /\ Times(ModelCalls) <= 1
        /\ Times({"from_event"}) = 1
        /\ Precedes({"from_event"}, StoreCalls \cup {"_build_messages"})
        /\ Precedes(StoreCalls, {"_build_messages"} \cup ModelCalls)
        /\ Precedes({"_build_messages"}, ModelCalls)
        /\ Precedes(ModelCalls, {"json.loads", "return"})
        /\ Precedes({"json.loads"}, {"return"})
        /\ CalledAny({"_build_messages"}) /\ SentMedia /\ SentFilename =>
              Wrote /\ answers.url = "ok" /\ outcome.media_object # None
        /\ CalledAny(ModelCalls) =>
              /\ SentDescription
              /\ answers.put \in {"ok", "unasked"}
              /\ answers.url \in {"ok", "unasked"}
              /\ Fault.at \notin {"from_event", "lambda_handler", "_get_s3_client",
                                  "b64decode", "put_object", "generate_presigned_url"}
        /\ Fault # NoExc /\ ~CalledAny(ModelCalls) => outcome.model_call = None

\* Media was uploaded, the model was called and the diagnosis returned.
C9_Witness ==
    /\ Done
    /\ CalledAny({"put_object"})
    /\ CalledAny(ModelCalls)
    /\ CalledAny({"json.loads"})
    /\ Returned(200)

(***************************************************************************)
(* C10.  What a failed request leaves in the bucket.                       *)
(***************************************************************************)
\* A valid request with media and a file name, and a bucket configured.
MediaWithBucket ==
    Done /\ SentDescription /\ SentMedia /\ SentFilename /\ Truthy(S3_BUCKET)

\* The failure is the absent credential or the empty text of the model.
CredentialOrEmptyOutput ==
    Fault.at = "_init_openai_client" \/ Fault.msg = EmptyResponseMessage

\* If the credential is absent or the model returns empty text, the object
\* has been written, the handler returns the 400 envelope, and the object
\* stays in the bucket.
WrittenBeforeCredential ==
    MediaWithBucket /\ CredentialOrEmptyOutput =>
        /\ Wrote
        /\ ObjectRemains
        /\ ReturnedError(Fault.msg)
        /\ Precedes({"put_object"}, {"_init_openai_client"})

\* C10 as claimed: the credential is checked after the upload, so that a
\* request with media that fails on the credential or on empty text of the
\* model leaves its object in the bucket; and only a failure in request
\* normalization, the bucket check or base64 decoding of the payload leaves
\* the store without a write.
C10_OnlyEarlyFailuresWriteNothing ==
    /\ WrittenBeforeCredential
    /\ Done /\ SentMedia /\ SentFilename /\ Fault # NoExc /\ ~Wrote =>
          Fault.at \in {"from_event", "lambda_handler", "b64decode"}

\* C10 amended: the credential is checked after the upload, so that a request
\* with media that fails on the credential or on empty text of the model
\* leaves its object in the bucket.  A failed request with media has written
\* nothing exactly when it failed in request normalization, the bucket check,
\* the creation of the store client, base64 decoding of the payload, or a
\* write the store rejected, and then the bucket is as it was; a request that
\* failed later (URL generation, credential, model call, empty text,
\* normalization of the reply) leaves its object in the bucket.
C10_FailuresAfterTheWriteLeaveTheObject ==
    /\ WrittenBeforeCredential
    /\ Done /\ SentMedia /\ SentFilename /\ Fault # NoExc =>
          /\ ~Wrote <=> Fault.at \in {"from_event", "lambda_handler", "_get_s3_client",
                                      "b64decode", "put_object"}
          /\ ~Wrote => objects = before
          /\ Wrote => ObjectRemains

\* The credential is absent: the object was written and the request failed.
C10_Witness ==
    /\ MediaWithBucket
    /\ ~Truthy(OPENAI_API_KEY)
    /\ Fault.at = "_init_openai_client"
    /\ Wrote
    /\ ObjectRemains
    /\ Returned(400)

====
